---- MODULE Spec2Model ----
(***************************************************************************)
(* ABI resolution helpers of web3/_utils/abi.py.                           *)
(*                                                                         *)
(* Representation.                                                         *)
(*   - A Python str holding an ABI type is the sequence of its lexemes:    *)
(*     each of ( ) , [ ] is one lexeme, a run of letters is one lexeme and *)
(*     a run of digits is one lexeme ("uint256[2]" is                      *)
(*     <<"uint","256","[","2","]">>).  str.strip("()"), str.split(","),    *)
(*     _type[0] == "(" and "," .join act on the punctuation only, so they  *)
(*     are computed on lexemes exactly as Python computes them on          *)
(*     characters.                                                         *)
(*   - A Python value is a record tagged by k: int, bool, str, bytes,      *)
(*     list, tuple, dict.  A dict is the sequence of its (key, value)      *)
(*     entries in insertion order, keys pairwise distinct.                 *)
(*   - A descriptor is a record; a key the Python dict lacks is a field    *)
(*     the record lacks.                                                   *)
(*   - The outcome of a call is [exc |-> e, val |-> v]: e = "none" when    *)
(*     the call returned v, otherwise the name of the exception raised.    *)
(***************************************************************************)
EXTENDS Integers, Sequences, FiniteSets, TLC

VARIABLES inp, pc, op, res

vars == <<inp, pc, op, res>>

(***************************************************************************)
(* Bounds of the explored inputs.                                          *)
(***************************************************************************)
MaxLen == 2      \* longest list / tuple value handed to is_encodable
MaxAbi == 3      \* longest contract ABI
MaxArgs == 2     \* most positional arguments of a call
MaxKwargs == 2   \* most keyword arguments of a call
MaxComponents == 2   \* most components of a tuple descriptor
MaxDepth == 3    \* deepest nesting of tuple descriptors
MaxTypes == 2    \* most types handed to abi_data_tree
MaxNormalizers == 2   \* most normalizers of a pipeline

(***************************************************************************)
(* Generic sequence helpers.                                               *)
(***************************************************************************)
SeqsUpTo(S, n) == UNION {[1..k -> S] : k \in 0..n}

Min(a, b) == IF a <= b THEN a ELSE b

RECURSIVE Concat(_)
Concat(ss) == IF ss = <<>> THEN <<>> ELSE Head(ss) \o Concat(Tail(ss))

Ret(v) == [exc |-> "none", val |-> v]
Raise(e) == [exc |-> e, val |-> <<>>]

(***************************************************************************)
(* Python values.                                                          *)
(***************************************************************************)
PyInt(n) == [k |-> "int", n |-> n]
PyBool(b) == [k |-> "bool", b |-> b]
PyStr(s) == [k |-> "str", s |-> s]
\* bytes of length n; utf8 tells whether they decode as UTF-8
PyBytes(n, u) == [k |-> "bytes", len |-> n, utf8 |-> u]
PyList(items) == [k |-> "list", items |-> items]
PyTuple(items) == [k |-> "tuple", items |-> items]
PyDict(items) == [k |-> "dict", entries |-> items]

\* len(value) of a sized value
PyLen(v) == IF v.k \in {"list", "tuple"} THEN Len(v.items)
            ELSE IF v.k = "dict" THEN Len(v.entries)
            ELSE IF v.k = "bytes" THEN v.len
            ELSE Len(v.s)

(***************************************************************************)
(* ABI type strings as lexeme sequences.                                   *)
(***************************************************************************)
Alphas == {"uint", "int", "bool", "address", "bytes", "string", "tuple"}

Digits == {"0", "1", "2", "3", "8", "32", "256"}

\* int(...) of a run of digits
NatOf(d) == CASE d = "0" -> 0 [] d = "1" -> 1 [] d = "2" -> 2 [] d = "3" -> 3
              [] d = "8" -> 8 [] d = "32" -> 32 [] d = "256" -> 256

\* the object None where a type string is expected
PyNone == <<"None">>

isinstance_str(t) == t # PyNone

SubSeqFrom(s, i) == SubSeq(s, i, Len(s))

\* str.strip("()"): drop every leading and every trailing parenthesis
RECURSIVE lstrip_parens(_)
lstrip_parens(s) ==
    IF s # <<>> /\ Head(s) \in {"(", ")"} THEN lstrip_parens(Tail(s)) ELSE s

RECURSIVE rstrip_parens(_)
rstrip_parens(s) ==
    IF s # <<>> /\ s[Len(s)] \in {"(", ")"}
    THEN rstrip_parens(SubSeq(s, 1, Len(s) - 1))
    ELSE s

strip_parens(s) == rstrip_parens(lstrip_parens(s))

\* str.split(","): cut at every comma, whatever encloses it; never empty
RECURSIVE split_comma(_)
split_comma(s) ==
    IF \A i \in 1..Len(s) : s[i] # ","
    THEN <<s>>
    ELSE LET i == CHOOSE j \in 1..Len(s) :
                      s[j] = "," /\ \A m \in 1..(j - 1) : s[m] # ","
         IN  <<SubSeq(s, 1, i - 1)>> \o split_comma(SubSeqFrom(s, i + 1))

\* ",".join(parts)
RECURSIVE join_comma(_)
join_comma(parts) ==
    IF parts = <<>> THEN <<>>
    ELSE IF Len(parts) = 1 THEN parts[1]
    ELSE parts[1] \o <<",">> \o join_comma(Tail(parts))

(***************************************************************************)
(* eth_abi.grammar.parse, on lexemes.                                      *)
(*   type       : tuple_type or basic_type                                 *)
(*   tuple_type : "(" then types separated by "," (or none) then ")",      *)
(*                then an optional arrlist                                 *)
(*   basic_type : alphas, optional digits, optional arrlist                *)
(*   arrlist    : one or more of "[" optional digits "]"                   *)
(* Each End... operator returns the index after the phrase that starts at  *)
(* i, or 0 when no phrase starts there.  Array dimensions are the digit    *)
(* runs SUB_TYPE_REGEX admits.                                             *)
(***************************************************************************)
RECURSIVE EndArrlist(_, _)
EndArrlist(s, i) ==
    IF i <= Len(s) /\ s[i] = "["
    THEN IF i + 1 <= Len(s) /\ s[i + 1] = "]" THEN EndArrlist(s, i + 2)
         ELSE IF i + 2 <= Len(s) /\ s[i + 1] \in Digits /\ s[i + 2] = "]"
              THEN EndArrlist(s, i + 3)
              ELSE 0
    ELSE i

RECURSIVE EndType(_, _)
RECURSIVE EndMoreTypes(_, _)
EndMoreTypes(s, i) ==
    IF i = 0 \/ i > Len(s) THEN 0
    ELSE IF s[i] = ")" THEN EndArrlist(s, i + 1)
    ELSE IF s[i] = "," THEN EndMoreTypes(s, EndType(s, i + 1))
    ELSE 0

EndType(s, i) ==
    IF i = 0 \/ i > Len(s) THEN 0
    ELSE IF s[i] = "("
         THEN IF i + 1 <= Len(s) /\ s[i + 1] = ")"
              THEN EndArrlist(s, i + 2)
              ELSE EndMoreTypes(s, EndType(s, i + 1))
    ELSE IF s[i] \in Alphas
         THEN IF i + 1 <= Len(s) /\ s[i + 1] \in Digits
              THEN EndArrlist(s, i + 2)
              ELSE EndArrlist(s, i + 1)
    ELSE 0

parses(s) == EndType(s, 1) = Len(s) + 1

\* eth_abi.grammar.normalize: the short aliases get their default width
normalize_type_string(s) ==
    IF s # <<>> /\ s[1] \in {"uint", "int"} /\ (Len(s) = 1 \/ s[2] \notin Digits)
    THEN <<s[1], "256">> \o Tail(s)
    ELSE s

\* the array suffixes of a basic type, one [] or [n] per dimension, as
\* sequences: <<>> for a dynamic dimension, <<n>> for a fixed one
RECURSIVE ArrlistOf(_)
ArrlistOf(s) ==
    IF s = <<>> THEN <<>>
    ELSE IF s[2] = "]" THEN <<<<>>>> \o ArrlistOf(SubSeqFrom(s, 3))
    ELSE <<<<NatOf(s[2])>>>> \o ArrlistOf(SubSeqFrom(s, 4))

\* BasicType.validate of the bases that have a rule
validates(base, sub) ==
    CASE base \in {"uint", "int"} ->
             sub # "" /\ NatOf(sub) % 8 = 0 /\ NatOf(sub) >= 8 /\ NatOf(sub) <= 256
      [] base = "bytes" -> sub = "" \/ (NatOf(sub) >= 1 /\ NatOf(sub) <= 32)
      [] base \in {"string", "address"} -> sub = ""
      [] OTHER -> TRUE

process_type(type_str) ==
    LET normalized_type_str == normalize_type_string(type_str)
        hasSub == Len(normalized_type_str) >= 2 /\ normalized_type_str[2] \in Digits
        base == normalized_type_str[1]
        sub == IF hasSub THEN normalized_type_str[2] ELSE ""
        arr == SubSeqFrom(normalized_type_str, IF hasSub THEN 3 ELSE 2)
    IN  IF ~parses(normalized_type_str) THEN Raise("ParseError")
        ELSE IF normalized_type_str[1] = "(" THEN Raise("ValueError")
        ELSE IF ~validates(base, sub) THEN Raise("ValueError")
        ELSE Ret([base |-> base, sub |-> sub, arrlist |-> ArrlistOf(arr)])

\* repr of one array dimension: "[]" or "[n]"
ReprDim(dim) ==
    IF dim = <<>> THEN <<"[", "]">>
    ELSE <<"[", CHOOSE d \in Digits : NatOf(d) = dim[1], "]">>

collapse_type(base, sub, arrlist) ==
    <<base>> \o (IF sub = "" THEN <<>> ELSE <<sub>>)
             \o Concat([i \in 1..Len(arrlist) |-> ReprDim(arrlist[i])])

(***************************************************************************)
(* collapse_if_tuple(abi_type) and the array-type helpers.                 *)
(***************************************************************************)
\* the types of the leaf components of a descriptor, nested ones inlined
RECURSIVE LeafTypes(_)
LeafTypes(abi_type) ==
    IF abi_type.type # <<"tuple">> THEN <<abi_type.type>>
    ELSE Concat([i \in 1..Len(abi_type.components) |->
                     LeafTypes(abi_type.components[i])])

\* collapse_if_tuple without parentheses around the nested tuples
collapse_if_tuple_flat(abi_type) ==
    IF abi_type.type # <<"tuple">> THEN abi_type.type
    ELSE <<"(">> \o join_comma(LeafTypes(abi_type)) \o <<")">>

RECURSIVE collapse_if_tuple(_)
collapse_if_tuple(abi_type) ==
    IF abi_type.type # <<"tuple">> THEN abi_type.type
    ELSE <<"(">>
         \o join_comma([i \in 1..Len(abi_type.components) |->
                            collapse_if_tuple(abi_type.components[i])])
         \o <<")">>

\* ARRAY_REGEX: letters and digits, then one or more [] or [n]
is_array_type(abi_type) ==
    \E k \in 1..(Len(abi_type) - 1) :
        /\ \A i \in 1..k : abi_type[i] \in Alphas \cup Digits
        /\ abi_type[k + 1] = "["
        /\ EndArrlist(abi_type, k + 1) = Len(abi_type) + 1

\* the position of the [ that opens the last suffix
LastOpen(abi_type) ==
    CHOOSE i \in 1..Len(abi_type) :
        abi_type[i] = "[" /\ \A j \in (i + 1)..Len(abi_type) : abi_type[j] # "["

\* of an array type: the type without its last suffix
sub_type_of_array_type(abi_type) == SubSeq(abi_type, 1, LastOpen(abi_type) - 1)

\* of an array type: <<n>> for a last suffix [n], <<>> (None) for []
length_of_array_type(abi_type) ==
    IF abi_type[LastOpen(abi_type) + 1] = "]" THEN <<>>
    ELSE <<NatOf(abi_type[LastOpen(abi_type) + 1])>>

\* get_tuple_component_types(tuple_type_string): the components between the
\* enclosing parentheses, cut at the commas that no inner parenthesis encloses
RECURSIVE Depth(_, _)
Depth(s, i) ==
    IF i = 0 THEN 0
    ELSE Depth(s, i - 1) + (IF s[i] = "(" THEN 1 ELSE IF s[i] = ")" THEN 0 - 1 ELSE 0)

RECURSIVE SplitTopLevel(_)
SplitTopLevel(s) ==
    LET cuts == {i \in 1..Len(s) : s[i] = "," /\ Depth(s, i) = 0}
    IN  IF cuts = {} THEN <<s>>
        ELSE LET i == CHOOSE c \in cuts : \A d \in cuts : c <= d
             IN  <<SubSeq(s, 1, i - 1)>> \o SplitTopLevel(SubSeqFrom(s, i + 1))

get_tuple_component_types(tuple_type_string) ==
    IF Len(tuple_type_string) <= 2 THEN <<>>
    ELSE SplitTopLevel(SubSeq(tuple_type_string, 2, Len(tuple_type_string) - 1))

(***************************************************************************)
(* Capabilities of eth_utils, web3._utils.ens and eth_abi on the values    *)
(* of the model.                                                           *)
(***************************************************************************)
\* the str values of the model
HexStr == "0x00"
NotHexStr == "0xzz"
EnsStr == "a.eth"

is_list_like(value) == value.k \in {"list", "tuple"}

is_ens_name(value) == value.k = "str" /\ value.s = EnsStr

is_hex(value) == value.k = "str" /\ value.s = HexStr

\* to_bytes(hexstr=value): one byte per pair of hex digits after 0x
to_bytes(value) == PyBytes((Len(value.s) - 2) \div 2, TRUE)

\* to_text(value) of a bytes value that decodes
to_text(value) == PyStr(EnsStr)

\* the result of a boolean call: "True", "False" or the exception raised
IsBool(r) == r \in {"True", "False"}
PyBoolStr(b) == IF b THEN "True" ELSE "False"

\* eth_abi.is_encodable of a scalar type and a value
eth_abi_is_encodable(base, sub, value) ==
    CASE base = "uint" ->
             PyBoolStr(value.k = "int" /\ value.n >= 0
                       /\ (NatOf(sub) >= 16 \/ value.n < 2 ^ NatOf(sub)))
      [] base = "int" ->
             PyBoolStr(value.k = "int"
                       /\ (NatOf(sub) >= 16
                           \/ (value.n < 2 ^ (NatOf(sub) - 1)
                               /\ value.n >= 0 - 2 ^ (NatOf(sub) - 1))))
      [] base = "bool" /\ sub = "" -> PyBoolStr(value.k = "bool")
      [] base = "address" -> PyBoolStr(value.k = "bytes" /\ value.len = 20)
      [] base = "bytes" /\ sub = "" -> PyBoolStr(value.k = "bytes")
      [] base = "bytes" /\ sub # "" ->
             PyBoolStr(value.k = "bytes" /\ value.len <= NatOf(sub))
      [] base = "string" -> PyBoolStr(value.k = "str")
      [] OTHER -> "NoEntriesFound"

\* all([...]) of a list built first: an element that raises, raises
AllOfList(rs) ==
    IF \E i \in 1..Len(rs) : ~IsBool(rs[i])
    THEN rs[CHOOSE i \in 1..Len(rs) :
                ~IsBool(rs[i]) /\ \A j \in 1..(i - 1) : IsBool(rs[j])]
    ELSE PyBoolStr(\A i \in 1..Len(rs) : rs[i] = "True")

\* all(... for ...) of a generator: stops at the first element not True
RECURSIVE AllOfGenerator(_)
AllOfGenerator(rs) ==
    IF rs = <<>> THEN "True"
    ELSE IF Head(rs) = "True" THEN AllOfGenerator(Tail(rs))
    ELSE Head(rs)

(***************************************************************************)
(* is_encodable(_type, value)                                              *)
(***************************************************************************)
\* LastDim reading the dimension written first
LastDim_first(arrlist) == arrlist[1]

\* arrlist[-1]: the dimension written last
LastDim(arrlist) == arrlist[Len(arrlist)]

\* arrlist[:-1]
ButLast(arrlist) == SubSeq(arrlist, 1, Len(arrlist) - 1)

\* _type.strip("()").split(",")
tuple_components(_type) == split_comma(strip_parens(_type))

RECURSIVE is_encodable(_, _)
is_encodable(_type, value) ==
    IF ~isinstance_str(_type) THEN "ValueError"
    ELSE IF _type = <<>> THEN "IndexError"
    ELSE IF _type[1] = "("
    THEN LET components == tuple_components(_type)
             values == value
         IN  IF values.k \notin {"list", "tuple"} THEN "False"
             ELSE IF Len(components) # Len(values.items) THEN "False"
             ELSE AllOfList([i \in 1..Len(components) |->
                                 is_encodable(components[i], values.items[i])])
    ELSE LET p == process_type(_type)
             base == p.val.base
             sub == p.val.sub
             arrlist == p.val.arrlist
         IN  IF p.exc # "none" THEN p.exc
             ELSE IF arrlist # <<>>
             THEN IF ~is_list_like(value) THEN "False"
                  ELSE IF LastDim(arrlist) # <<>>
                          /\ Len(value.items) # LastDim(arrlist)[1]
                  THEN "False"
                  ELSE LET sub_type == collapse_type(base, sub, ButLast(arrlist))
                       IN  AllOfGenerator([i \in 1..Len(value.items) |->
                                   is_encodable(sub_type, value.items[i])])
             ELSE IF base = "address" /\ is_ens_name(value) THEN "True"
             ELSE IF base = "bytes" /\ value.k = "str"
             THEN IF is_hex(value) /\ Len(value.s) % 2 = 0
                  THEN eth_abi_is_encodable(base, sub, to_bytes(value))
                  ELSE "False"
             ELSE IF base = "string" /\ value.k = "bytes"
             THEN IF ~value.utf8 THEN "False"
                  ELSE eth_abi_is_encodable(base, sub, to_text(value))
             ELSE eth_abi_is_encodable(base, sub, value)

(***************************************************************************)
(* Descriptors and dicts.                                                  *)
(***************************************************************************)
Has(d, key) == key \in DOMAIN d

\* function_abi.get('inputs', [])
InputsOrEmpty(function_abi) ==
    IF Has(function_abi, "inputs") THEN function_abi.inputs ELSE <<>>

DictKeys(items) == {items[i][1] : i \in 1..Len(items)}

DictGet(items, key) ==
    items[CHOOSE i \in 1..Len(items) : items[i][1] = key][2]

\* d[key] = value: a key already present keeps its place and takes the value
DictPut(items, key, value) ==
    IF key \in DictKeys(items)
    THEN [i \in 1..Len(items) |->
              IF items[i][1] = key THEN <<key, value>> ELSE items[i]]
    ELSE Append(items, <<key, value>>)

\* {key(i): value(i) for i in 1..n}, built left to right
RECURSIVE DictOfPairs(_)
DictOfPairs(pairs) ==
    IF pairs = <<>> THEN <<>>
    ELSE LET last == pairs[Len(pairs)]
         IN  DictPut(DictOfPairs(SubSeq(pairs, 1, Len(pairs) - 1)), last[1], last[2])

\* list.index(x): the first position of x
IndexOf(names, x) ==
    CHOOSE i \in 1..Len(names) :
        names[i] = x /\ \A j \in 1..(i - 1) : names[j] # x

\* sorted(items, key=lambda kv: names.index(kv[0])): stable, so items of
\* equal key keep their order
RECURSIVE SortedFrom(_, _, _)
SortedFrom(items, names, k) ==
    IF k > Len(names) THEN <<>>
    ELSE SelectSeq(items, LAMBDA kv : IndexOf(names, kv[1]) = k)
         \o SortedFrom(items, names, k + 1)

\* sorted_by_index without the sort
sorted_by_index_unsorted(items, names) == items

sorted_by_index(items, names) == SortedFrom(items, names, 1)

(***************************************************************************)
(* merge_args_and_kwargs(function_abi, args, kwargs)                       *)
(***************************************************************************)
merge_args_and_kwargs(function_abi, args, kwargs) ==
    IF Len(args) + Len(kwargs) # Len(InputsOrEmpty(function_abi))
    THEN \* the message reads function_abi['inputs']
         IF Has(function_abi, "inputs") THEN Raise("TypeError") ELSE Raise("KeyError")
    ELSE IF kwargs = <<>> THEN Ret(args)
    ELSE LET inputs == function_abi.inputs
             n == Min(Len(inputs), Len(args))
             args_as_kwargs ==
                 DictOfPairs([i \in 1..n |-> <<inputs[i].name, args[i]>>])
             duplicate_keys == DictKeys(args_as_kwargs) \cap DictKeys(kwargs)
             sorted_arg_names == [i \in 1..Len(inputs) |-> inputs[i].name]
             unknown_kwargs ==
                 {key \in DictKeys(kwargs) :
                      \A i \in 1..Len(sorted_arg_names) : sorted_arg_names[i] # key}
             sorted_args == sorted_by_index(kwargs \o args_as_kwargs, sorted_arg_names)
         IN  IF duplicate_keys # {}
             THEN \* the message reads function_abi['name']
                  IF Has(function_abi, "name") THEN Raise("TypeError")
                  ELSE Raise("KeyError")
             ELSE IF unknown_kwargs # {} THEN Raise("TypeError")
             ELSE Ret([i \in 1..Len(sorted_args) |-> sorted_args[i][2]])

(***************************************************************************)
(* get_abi_inputs(function_abi, arg_values)                                *)
(***************************************************************************)
\* how many items iterating the value yields; -1 when it is not iterable
IterLen(v) == IF v.k \in {"int", "bool"} THEN 0 - 1 ELSE PyLen(v)

\* component_value reading a dict by position, like a tuple
component_value_by_position(arg_value, component, i) ==
    IF arg_value.k = "dict" THEN arg_value.entries[i][2] ELSE arg_value.items[i]

\* the value appended for the i-th component of a dict or tuple argument
component_value(arg_value, component, i) ==
    IF arg_value.k = "dict" THEN DictGet(arg_value.entries, component.name)
    ELSE arg_value.items[i]

\* one tuple-typed input: [exc, type, value]
TupleInput(abi_input, arg_value) ==
    LET components == abi_input.components
        n == Min(Len(components), IterLen(arg_value))
        missing == {i \in 1..n : components[i].name \notin DictKeys(arg_value.entries)}
        component_types == [i \in 1..n |-> components[i].type]
        component_values ==
            [i \in 1..n |-> component_value(arg_value, components[i], i)]
    IN  IF IterLen(arg_value) < 0 THEN [exc |-> "TypeError"]
        ELSE IF arg_value.k = "dict" /\ missing # {} THEN [exc |-> "KeyError"]
        ELSE IF arg_value.k \notin {"dict", "tuple"} /\ n > 0
        THEN [exc |-> "TypeError"]
        ELSE [exc |-> "none",
              type |-> <<"(">> \o join_comma(component_types) \o <<")">>,
              value |-> PyTuple(component_values)]

get_abi_inputs(function_abi, arg_values) ==
    IF ~Has(function_abi, "inputs") THEN Raise("KeyError")
    ELSE LET inputs == function_abi.inputs
             n == Min(Len(inputs), Len(arg_values))
             IsTuple(i) == inputs[i].type = <<"tuple">>
             one == [i \in 1..n |->
                        IF IsTuple(i) THEN TupleInput(inputs[i], arg_values[i])
                        ELSE [exc |-> "none"]]
             tupleIdx == SelectSeq([i \in 1..n |-> i], IsTuple)
         IN  IF \E i \in 1..n : one[i].exc # "none"
             THEN Raise(one[CHOOSE i \in 1..n :
                                one[i].exc # "none"
                                /\ \A j \in 1..(i - 1) : one[j].exc = "none"].exc)
             ELSE Ret([types |-> [j \in 1..Len(tupleIdx) |-> one[tupleIdx[j]].type],
                       values |-> [i \in 1..n |->
                                       IF IsTuple(i) THEN one[i].value
                                       ELSE arg_values[i]]])

(***************************************************************************)
(* check_if_arguments_can_be_encoded(function_abi, args, kwargs)           *)
(***************************************************************************)
check_if_arguments_can_be_encoded(function_abi, args, kwargs) ==
    LET merged == merge_args_and_kwargs(function_abi, args, kwargs)
        arguments == merged.val
        got == get_abi_inputs(function_abi, arguments)
        n == Min(Len(got.val.types), Len(got.val.values))
    IN  IF merged.exc = "TypeError" THEN "False"
        ELSE IF merged.exc # "none" THEN merged.exc
        ELSE IF Len(InputsOrEmpty(function_abi)) # Len(arguments) THEN "False"
        ELSE IF got.exc # "none" THEN got.exc
        ELSE AllOfGenerator([i \in 1..n |->
                                 is_encodable(got.val.types[i], got.val.values[i])])

(***************************************************************************)
(* The resolution filters.  Each is a list comprehension over the ABI: its *)
(* outcome is the list of the entries kept, or the exception the first     *)
(* entry that raises, raises.                                              *)
(***************************************************************************)
\* [abi for abi in contract_abi if test(abi)], test(abi) being "True",
\* "False" or an exception
Comprehension(contract_abi, test(_)) ==
    LET tests == [i \in 1..Len(contract_abi) |-> test(contract_abi[i])]
    IN  IF \E i \in 1..Len(tests) : ~IsBool(tests[i])
        THEN Raise(tests[CHOOSE i \in 1..Len(tests) :
                             ~IsBool(tests[i])
                             /\ \A j \in 1..(i - 1) : IsBool(tests[j])])
        ELSE Ret(SelectSeq(contract_abi, LAMBDA abi : test(abi) = "True"))

filter_by_type(_type, contract_abi) ==
    Comprehension(contract_abi, LAMBDA abi : PyBoolStr(abi.type = _type))

filter_by_name(name, contract_abi) ==
    Comprehension(contract_abi,
        LAMBDA abi : IF abi.type \in {"fallback", "constructor"} THEN "False"
                     ELSE IF ~Has(abi, "name") THEN "KeyError"
                     ELSE PyBoolStr(abi.name = name))

\* filter_by_argument_count handing the entries back last first
filter_by_argument_count_reversed(num_arguments, contract_abi) ==
    LET kept == SelectSeq(contract_abi,
                          LAMBDA abi : Has(abi, "inputs")
                                       /\ Len(abi.inputs) = num_arguments)
    IN  IF \E i \in 1..Len(contract_abi) : ~Has(contract_abi[i], "inputs")
        THEN Raise("KeyError")
        ELSE Ret([i \in 1..Len(kept) |-> kept[Len(kept) + 1 - i]])

filter_by_argument_count(num_arguments, contract_abi) ==
    Comprehension(contract_abi,
        LAMBDA abi : IF ~Has(abi, "inputs") THEN "KeyError"
                     ELSE PyBoolStr(Len(abi.inputs) = num_arguments))

\* get_abi_input_names(abi), as Ret(names) or Raise
get_abi_input_names(abi) ==
    IF ~Has(abi, "inputs") /\ abi.type = "fallback" THEN Ret(<<>>)
    ELSE IF ~Has(abi, "inputs") THEN Raise("KeyError")
    ELSE Ret([i \in 1..Len(abi.inputs) |-> abi.inputs[i].name])

filter_by_argument_name(argument_names, contract_abi) ==
    Comprehension(contract_abi,
        LAMBDA abi :
            LET names == get_abi_input_names(abi)
                have == {names.val[i] : i \in 1..Len(names.val)}
                want == {argument_names[i] : i \in 1..Len(argument_names)}
            IN  IF names.exc # "none" THEN names.exc
                ELSE PyBoolStr(want \cap have = want))

filter_by_encodability(args, kwargs, contract_abi) ==
    Comprehension(contract_abi,
        LAMBDA function_abi :
            check_if_arguments_can_be_encoded(function_abi, args, kwargs))

(***************************************************************************)
(* find_matching_fn_abi(contract_abi, name, args, kwargs): the filters in  *)
(* sequence, then the first candidate left; no candidate left is an error. *)
(***************************************************************************)
find_matching_fn_abi(contract_abi, name, args, kwargs) ==
    LET byName == filter_by_name(name, contract_abi)
        byCount == filter_by_argument_count(Len(args) + Len(kwargs), byName.val)
        byArgName ==
            filter_by_argument_name([i \in 1..Len(kwargs) |-> kwargs[i][1]],
                                    byCount.val)
        byEnc == filter_by_encodability(args, kwargs, byArgName.val)
    IN  IF byName.exc # "none" THEN Raise(byName.exc)
        ELSE IF byCount.exc # "none" THEN Raise(byCount.exc)
        ELSE IF byArgName.exc # "none" THEN Raise(byArgName.exc)
        ELSE IF byEnc.exc # "none" THEN Raise(byEnc.exc)
        ELSE IF byEnc.val = <<>> THEN Raise("ValidationError")
        ELSE Ret(byEnc.val[1])

(***************************************************************************)
(* abi_to_signature(abi) and the classification of input types.  A name    *)
(* lexeme is a run of letters; 'Lib.Enum' is <<"Lib", ".", "Enum">>.       *)
(***************************************************************************)
Names == Alphas \cup {"Lib", "Enum", "byte"}

\* the index after the base type BASE_TYPE_REGEX matches at the start of
\* abi_type, or 0: a static or dynamic type that no letter or digit follows
BaseTypeEnd(abi_type) ==
    LET sized == Len(abi_type) >= 2 /\ abi_type[2] \in Digits
        size == NatOf(abi_type[2])
    IN  IF abi_type = <<>> THEN 0
        ELSE IF abi_type[1] \in {"address", "bool", "string"}
        THEN IF sized THEN 0 ELSE 2
        ELSE IF abi_type[1] \in {"uint", "int"}
        THEN IF sized /\ size % 8 = 0 /\ size >= 8 /\ size <= 256 THEN 3 ELSE 0
        ELSE IF abi_type[1] = "bytes"
        THEN IF ~sized THEN 2
             ELSE IF size < 1 \/ size > 32 THEN 0
             ELSE IF size = 32 /\ Len(abi_type) >= 4
                     /\ abi_type[3] = "." /\ abi_type[4] = "byte"
             THEN 5
             ELSE 3
        ELSE 0

\* TYPE_REGEX: a base type, then any number of [] or [n], to the end
is_recognized_type(abi_type) ==
    /\ BaseTypeEnd(abi_type) # 0
    /\ EndArrlist(abi_type, BaseTypeEnd(abi_type)) = Len(abi_type) + 1

\* NAME_REGEX: a letter, then letters and digits
IsName(s) ==
    /\ s # <<>>
    /\ s[1] \in Names
    /\ \A i \in 1..Len(s) : s[i] \in Names \cup Digits

\* ENUM_REGEX: name . name
is_probably_enum(abi_type) ==
    \E i \in 1..Len(abi_type) :
        /\ abi_type[i] = "."
        /\ IsName(SubSeq(abi_type, 1, i - 1))
        /\ IsName(SubSeqFrom(abi_type, i + 1))

normalize_event_input_types(abi_args) ==
    [i \in 1..Len(abi_args) |->
         IF is_recognized_type(abi_args[i].type) THEN abi_args[i]
         ELSE IF is_probably_enum(abi_args[i].type)
         THEN [abi_args[i] EXCEPT !.type = <<"uint", "8">>]
         ELSE abi_args[i]]

\* the signature as lexemes: the name, then ( types ) as in a type string
abi_to_signature(abi) ==
    IF ~Has(abi, "name") THEN Raise("KeyError")
    ELSE LET args == normalize_event_input_types(InputsOrEmpty(abi))
         IN  Ret(<<abi.name, "(">>
                     \o join_comma([i \in 1..Len(args) |-> args[i].type])
                     \o <<")">>)

(***************************************************************************)
(* The typed data tree.  ABITypedData([abi_type, data]) is the record      *)
(* tagged "typed"; its abi_type is a type string or None.                  *)
(***************************************************************************)
Typed(abi_type, data) == [k |-> "typed", abi_type |-> abi_type, data |-> data]

\* the characters of a lexeme
CharsOf(x) ==
    CASE x = "uint" -> <<"u", "i", "n", "t">>
      [] x = "int" -> <<"i", "n", "t">>
      [] x = "bool" -> <<"b", "o", "o", "l">>
      [] x = "address" -> <<"a", "d", "d", "r", "e", "s", "s">>
      [] x = "bytes" -> <<"b", "y", "t", "e", "s">>
      [] x = "string" -> <<"s", "t", "r", "i", "n", "g">>
      [] x = "tuple" -> <<"t", "u", "p", "l", "e">>
      [] x = "32" -> <<"3", "2">>
      [] x = "256" -> <<"2", "5", "6">>
      [] OTHER -> <<x>>

\* the characters of a str, which is what unpacking it yields
Chars(s) == Concat([i \in 1..Len(s) |-> CharsOf(s[i])])

\* the first outcome that is an exception, among outcomes one of which is
FirstRaise(rs) ==
    rs[CHOOSE i \in 1..Len(rs) :
           rs[i].exc # "none" /\ \A j \in 1..(i - 1) : rs[j].exc = "none"]

\* abi_sub_tree((base, sub, arrlist), data_value): data_type is the 3-tuple
\* that process_type returned, or the one the level above built
RECURSIVE abi_sub_tree_of(_, _, _, _)
abi_sub_tree_of(base, sub, arrlist, data_value) ==
    LET collapsed == collapse_type(base, sub, arrlist)
        children == [i \in 1..Len(data_value.items) |->
                         abi_sub_tree_of(base, sub, ButLast(arrlist),
                                         data_value.items[i])]
    IN  IF arrlist # <<>>
        THEN IF IterLen(data_value) < 0 THEN Raise("TypeError")
             ELSE IF \E i \in 1..Len(children) : children[i].exc # "none"
             THEN Raise(FirstRaise(children).exc)
             ELSE Ret(Typed(collapsed,
                            PyList([i \in 1..Len(children) |-> children[i].val])))
        ELSE Ret(Typed(collapsed, data_value))

\* abi_sub_tree(data_type, data_value), data_type a str or None.  A str of
\* three characters unpacks into base, sub, arrlist without ValueError:
\* process_type is not called, arrlist is the third character (a non-empty
\* str, so true), collapse_type appends its repr, and arrlist[:-1] is ''.
\* A data_value iterated here is a list or a tuple, or not iterable.
abi_sub_tree(data_type, data_value) ==
    IF data_type = PyNone THEN Ret(Typed(PyNone, data_value))
    ELSE IF data_type = <<>> THEN Raise("IndexError")
    ELSE IF data_type[1] = "(" /\ data_value.k = "tuple"
    THEN Ret(Typed(data_type, data_value))
    ELSE IF Len(Chars(data_type)) = 3
    THEN LET c == Chars(data_type)
         IN  IF IterLen(data_value) < 0 THEN Raise("TypeError")
             ELSE Ret(Typed(<<c[1], c[2], "'", c[3], "'">>,
                            PyList([i \in 1..Len(data_value.items) |->
                                        Typed(<<c[1], c[2]>>, data_value.items[i])])))
    ELSE LET p == process_type(data_type)
         IN  IF p.exc # "none" THEN Raise(p.exc)
             ELSE abi_sub_tree_of(p.val.base, p.val.sub, p.val.arrlist, data_value)

\* abi_data_tree(types, data): one node per pair of zip(types, data)
abi_data_tree(types, data) ==
    LET n == Min(Len(types), Len(data.items))
        nodes == [i \in 1..n |-> abi_sub_tree(types[i], data.items[i])]
    IN  IF \E i \in 1..n : nodes[i].exc # "none" THEN Raise(FirstRaise(nodes).exc)
        ELSE Ret(PyList([i \in 1..n |-> nodes[i].val]))

strip_abi_type(elements) ==
    IF elements.k = "typed" THEN elements.data ELSE elements

(***************************************************************************)
(* Normalizers: (datatype, data) -> (datatype, data).  The outcome of a    *)
(* call is [exc, abi_type, data].                                          *)
(***************************************************************************)
HexDigits == <<"0", "1", "2", "3", "4", "5", "6", "7",
               "8", "9", "a", "b", "c", "d", "e", "f">>

RECURSIVE HexOf(_)
HexOf(n) == IF n < 16 THEN HexDigits[n + 1]
            ELSE HexOf(n \div 16) \o HexDigits[(n % 16) + 1]

\* hex(n)
hex(n) == IF n < 0 THEN "-0x" \o HexOf(0 - n) ELSE "0x" \o HexOf(n)

\* bool(value)
Truthy(v) == CASE v.k = "bool" -> v.b
               [] v.k = "int" -> v.n # 0
               [] v.k = "str" -> v.s # ""
               [] v.k = "bytes" -> v.len > 0
               [] v.k = "typed" -> TRUE
               [] v.k = "dict" -> v.entries # <<>>
               [] OTHER -> v.items # <<>>

\* tru_dat:     lambda typ, dat: (typ, 'Tru-dat') if typ == 'bool' and dat
\*                               else (typ, dat)
\* hex_int:     lambda typ, dat: (typ, hex(dat)) if typ == 'int256'
\*                               else (typ, dat)
\* bool_as_int: lambda typ, dat: ('int256', int(bool(dat))) if typ == 'bool'
\*                               else (typ, dat)
Normalizers == {"tru_dat", "hex_int", "bool_as_int"}

Normalize(func, typ, dat) ==
    LET same == [exc |-> "none", abi_type |-> typ, data |-> dat]
    IN  CASE func = "tru_dat" ->
                 IF typ = <<"bool">> /\ Truthy(dat)
                 THEN [same EXCEPT !.data = PyStr("Tru-dat")] ELSE same
          [] func = "hex_int" ->
                 IF typ # <<"int", "256">> THEN same
                 ELSE IF dat.k = "int" THEN [same EXCEPT !.data = PyStr(hex(dat.n))]
                 ELSE IF dat.k = "bool"
                 THEN [same EXCEPT !.data = PyStr(hex(IF dat.b THEN 1 ELSE 0))]
                 ELSE [same EXCEPT !.exc = "TypeError"]
          [] func = "bool_as_int" ->
                 IF typ = <<"bool">>
                 THEN [same EXCEPT !.abi_type = <<"int", "256">>,
                                   !.data = PyInt(IF Truthy(dat) THEN 1 ELSE 0)]
                 ELSE same

(***************************************************************************)
(* recursive_map(func, data) of web3._utils.formatters: the items of a     *)
(* collection are mapped first, left to right, then func is applied to the *)
(* collection rebuilt from them.  An ABITypedData is a collection of its   *)
(* abi_type and its data.  func is <<"map_to_typed_data", normalizer>> or  *)
(* <<"strip_abi_type">>.  The outcome is [exc, val, calls], calls being    *)
(* the calls of the normalizer in the order they were made.                *)
(***************************************************************************)
Unchanged(elements) == [exc |-> "none", val |-> elements, calls |-> <<>>]

\* map_to_typed_data(elements) of data_tree_map(func, ...)
map_to_typed_data_all(func, elements) ==
    IF elements.k # "typed" THEN Unchanged(elements)
    ELSE IF elements.abi_type = PyNone THEN Unchanged(elements)
    ELSE LET r == Normalize(func, elements.abi_type, elements.data)
         IN  [exc |-> r.exc,
              val |-> Typed(r.abi_type, r.data),
              calls |-> <<[func |-> func, abi_type |-> elements.abi_type,
                           data |-> elements.data]>>]

\* map_to_typed_data passing the array nodes by
map_to_typed_data_leaves(func, elements) ==
    IF elements.k # "typed" THEN Unchanged(elements)
    ELSE IF elements.abi_type = PyNone THEN Unchanged(elements)
    ELSE IF elements.abi_type[1] = "(" THEN Unchanged(elements)
    ELSE IF is_array_type(elements.abi_type) THEN Unchanged(elements)
    ELSE LET r == Normalize(func, elements.abi_type, elements.data)
         IN  [exc |-> r.exc,
              val |-> Typed(r.abi_type, r.data),
              calls |-> <<[func |-> func, abi_type |-> elements.abi_type,
                           data |-> elements.data]>>]

map_to_typed_data(func, elements) ==
    IF elements.k # "typed" THEN Unchanged(elements)
    ELSE IF elements.abi_type = PyNone THEN Unchanged(elements)
    ELSE IF elements.abi_type = <<>>
    THEN [exc |-> "IndexError", val |-> elements, calls |-> <<>>]
    ELSE IF elements.abi_type[1] = "(" THEN Unchanged(elements)
    ELSE LET r == Normalize(func, elements.abi_type, elements.data)
         IN  [exc |-> r.exc,
              val |-> Typed(r.abi_type, r.data),
              calls |-> <<[func |-> func, abi_type |-> elements.abi_type,
                           data |-> elements.data]>>]

\* func(elements)
ApplyFunc(func, elements) ==
    IF func[1] = "strip_abi_type" THEN Unchanged(strip_abi_type(elements))
    ELSE map_to_typed_data(func[2], elements)

\* the items a collection is rebuilt from: the data of a typed node (its
\* abi_type maps to itself), the items of a list or tuple, the values of a
\* dict; none of a str, bytes, int or bool
ItemsOf(data) ==
    CASE data.k = "typed" -> <<data.data>>
      [] data.k \in {"list", "tuple"} -> data.items
      [] data.k = "dict" -> [i \in 1..Len(data.entries) |-> data.entries[i][2]]
      [] OTHER -> <<>>

Rebuilt(data, items) ==
    CASE data.k = "typed" -> Typed(data.abi_type, items[1])
      [] data.k \in {"list", "tuple"} -> [data EXCEPT !.items = items]
      [] data.k = "dict" ->
             PyDict([i \in 1..Len(items) |-> <<data.entries[i][1], items[i]>>])
      [] OTHER -> data

RECURSIVE recursive_map(_, _)

\* map(recurse, collection): the outcomes for the items, first to last
RECURSIVE MapItems(_, _)
MapItems(func, items) ==
    IF items = <<>> THEN <<>>
    ELSE <<recursive_map(func, Head(items))>> \o MapItems(func, Tail(items))

recursive_map(func, data) ==
    LET items == ItemsOf(data)
        mapped == MapItems(func, items)
        failed == {i \in 1..Len(items) : mapped[i].exc # "none"}
        last == IF failed = {} THEN Len(items)
                ELSE CHOOSE i \in failed : \A j \in failed : i <= j
        calls == Concat([i \in 1..last |-> mapped[i].calls])
        top == ApplyFunc(func,
                         Rebuilt(data, [i \in 1..Len(items) |-> mapped[i].val]))
    IN  IF failed # {}
        THEN [exc |-> mapped[last].exc, val |-> data, calls |-> calls]
        ELSE [exc |-> top.exc, val |-> top.val, calls |-> calls \o top.calls]

data_tree_map(func, data_tree) ==
    recursive_map(<<"map_to_typed_data", func>>, data_tree)

\* Pipe giving the last normalizer the tree as it was built
Pipe_last_only(normalizers, tree) ==
    IF normalizers = <<>> THEN Unchanged(tree)
    ELSE data_tree_map(normalizers[Len(normalizers)], tree)

\* pipe(tree, *map(data_tree_map, normalizers)): each normalizer's pass is
\* given the tree the pass before returned
RECURSIVE Pipe(_, _)
Pipe(normalizers, tree) ==
    IF normalizers = <<>> THEN Unchanged(tree)
    ELSE LET first == data_tree_map(Head(normalizers), tree)
             rest == Pipe(Tail(normalizers), first.val)
         IN  IF first.exc # "none" THEN first
             ELSE [rest EXCEPT !.calls = first.calls \o rest.calls]

map_abi_data(normalizers, types, data) ==
    LET tree == abi_data_tree(types, data)
        piped == Pipe(normalizers, tree.val)
        stripped == recursive_map(<<"strip_abi_type">>, piped.val)
    IN  IF tree.exc # "none"
        THEN [exc |-> tree.exc, val |-> <<>>, calls |-> <<>>]
        ELSE IF piped.exc # "none" THEN [piped EXCEPT !.val = <<>>]
        ELSE [stripped EXCEPT !.calls = piped.calls]

(***************************************************************************)
(* The inputs explored.                                                    *)
(***************************************************************************)
\* type strings, written as their lexemes
T_uint256 == <<"uint", "256">>
T_uint8 == <<"uint", "8">>
T_bool == <<"bool">>
T_bytes32 == <<"bytes", "32">>
T_tuple == <<"tuple">>
Arr(t, d) == t \o <<"[", d, "]">>
DynArr(t) == t \o <<"[", "]">>
Tup(ts) == <<"(">> \o join_comma(ts) \o <<")">>

TypeStrings ==
    { <<>>, PyNone, T_uint256, T_uint8, T_bool, T_bytes32, <<"uint">>,
      <<"bytes">>, <<"string">>, <<"address">>, <<"uint", "3">>,
      DynArr(T_uint256), Arr(T_uint256, "0"), Arr(T_uint256, "1"),
      Arr(T_uint256, "2"), Arr(T_bool, "2"), Arr(<<"uint">>, "2"),
      Arr(Arr(T_uint256, "1"), "2"), Arr(Arr(T_uint256, "2"), "1"),
      Arr(DynArr(T_uint256), "2"), DynArr(Arr(T_uint256, "2")),
      Tup(<<>>), Tup(<<T_uint256>>), Tup(<<T_uint256, T_uint256>>),
      Tup(<<T_uint256, T_bool>>), Tup(<<Arr(T_uint256, "2"), T_bool>>),
      Tup(<<Tup(<<T_uint256, T_uint256>>), T_uint256>>),
      Tup(<<T_uint256, Tup(<<T_uint256, T_uint256>>)>>),
      Tup(<<Tup(<<T_uint256>>)>>), Tup(<<Tup(<<T_uint256, T_bool>>)>>),
      DynArr(Tup(<<T_uint256, T_uint256>>)) }

Leaves == {PyInt(1), PyBool(TRUE)}

OtherScalars ==
    {PyInt(300), PyInt(0 - 1), PyStr(HexStr), PyStr(NotHexStr), PyStr(EnsStr),
     PyBytes(2, TRUE), PyBytes(2, FALSE), PyBytes(20, TRUE), PyBytes(33, TRUE),
     PyDict(<<>>)}

\* a value nests lists in lists or tuples in tuples, two levels deep
NestedOf(kind) ==
    LET inner == {[k |-> kind, items |-> items] : items \in SeqsUpTo(Leaves, MaxLen)}
    IN  {[k |-> kind, items |-> items] :
             items \in SeqsUpTo(Leaves \cup inner, MaxLen)}

Values == Leaves \cup OtherScalars \cup NestedOf("list") \cup NestedOf("tuple")
              \cup {PyList(<<PyTuple(<<PyInt(1), PyInt(1)>>), PyInt(1)>>),
                    PyTuple(<<PyList(<<PyInt(1), PyInt(1)>>), PyBool(TRUE)>>)}

EncInputs == [kind : {"enc"}, type : TypeStrings, value : Values]

\* parameter descriptors
Param(name, type) == [name |-> name, type |-> type]
TupleParam(name, components) ==
    [name |-> name, type |-> T_tuple, components |-> components]
PQ == <<Param("p", T_uint256), Param("q", T_bool)>>

Fn(name, inputs) == [type |-> "function", name |-> name, inputs |-> inputs]

\* tuple descriptors: up to MaxComponents components, tuples nested in
\* tuples down to MaxDepth levels
Scalars == {Param("p", T_uint256), Param("q", T_bool)}

RECURSIVE Nested(_)
Nested(depth) ==
    IF depth = 0 THEN {}
    ELSE LET below == {Param("q", T_bool)} \cup Nested(depth - 1)
         IN  {TupleParam("n", <<c>>) : c \in below}
                 \cup {TupleParam("n", <<c, Param("p", T_uint256)>>) : c \in below}

TupleDescs ==
    {TupleParam("t", components) :
         components \in SeqsUpTo(Scalars \cup Nested(MaxDepth - 1), MaxComponents)}

DescInputs == [kind : {"desc"}, abi_type : TupleDescs \cup Scalars]

\* a type and a datum for it, as the tree engine is given them
T_int256 == <<"int", "256">>
T_pair == Tup(<<T_uint256, T_bool>>)
V_pair == <<PyInt(1), PyBool(TRUE)>>

TreePairs ==
    { <<T_bool, PyBool(TRUE)>>,
      <<T_int256, PyInt(2)>>,
      <<PyNone, PyStr("latest")>>,
      <<<<"uint">>, PyInt(1)>>,
      <<<<"int">>, PyInt(1)>>,
      <<Arr(T_bool, "2"), PyList(<<PyBool(TRUE), PyBool(FALSE)>>)>>,
      <<Arr(Arr(T_int256, "1"), "2"),
        PyList(<<PyList(<<PyInt(1)>>), PyList(<<PyInt(2)>>)>>)>>,
      <<T_pair, PyList(V_pair)>>,
      <<Tup(<<T_pair, T_int256>>), PyTuple(<<PyTuple(V_pair), PyInt(2)>>)>> }

\* types and data of matching shape, and the normalizers of the pipeline
TreeInputs ==
    {[kind |-> "tree",
      types |-> [i \in 1..Len(pairs) |-> pairs[i][1]],
      data |-> PyList([i \in 1..Len(pairs) |-> pairs[i][2]]),
      normalizers |-> normalizers] :
         pairs \in SeqsUpTo(TreePairs, MaxTypes),
         normalizers \in SeqsUpTo(Normalizers, MaxNormalizers)}

\* the descriptors rendered as signatures
T_enum == <<"Lib", ".", "Enum">>

SigParams ==
    { Param("x", T_uint256), Param("e", T_enum), Param("y", Arr(T_bool, "2")),
      TupleParam("t", PQ),
      TupleParam("t", <<TupleParam("n", PQ), Param("x", T_uint256)>>) }

SigInputs ==
    [kind : {"sig"},
     abi : {Fn("f", inputs) : inputs \in SeqsUpTo(SigParams, MaxArgs)}
               \cup {[type |-> "function", name |-> "f"],
                     [type |-> "event", name |-> "E",
                      inputs |-> <<Param("e", T_enum)>>],
                     [type |-> "fallback"]}]

\* the descriptors contract ABIs are made of
AbiPool ==
    { Fn("a", <<>>),
      Fn("a", <<Param("", T_bytes32)>>),
      Fn("a", <<Param("", T_uint256)>>),
      Fn("a", <<Param("x", T_uint8)>>),
      Fn("b", <<Param("x", T_uint256)>>),
      Fn("a", <<TupleParam("t", PQ)>>),
      [type |-> "fallback"],
      [type |-> "constructor", inputs |-> <<Param("x", T_uint256)>>] }

ContractAbis == SeqsUpTo(AbiPool, MaxAbi)

\* the descriptors merged and flattened on their own
FnPool ==
    { Fn("a", <<Param("x", T_uint256)>>),
      Fn("f", <<Param("x", T_uint256), Param("y", T_bool)>>),
      Fn("f", <<Param("x", T_uint256), Param("y", T_bool), Param("z", T_uint256)>>),
      Fn("g", <<TupleParam("t", PQ)>>),
      Fn("g", <<TupleParam("t", PQ), Param("x", T_uint256)>>),
      Fn("g", <<Param("x", T_uint256), TupleParam("t", PQ)>>),
      Fn("h", <<TupleParam("t", <<TupleParam("n", PQ), Param("x", T_uint256)>>)>>),
      Fn("u", <<Param("", T_uint256), Param("", T_bool), Param("z", T_uint256)>>),
      [type |-> "fallback"],
      [type |-> "constructor",
       inputs |-> <<Param("x", T_uint256), Param("y", T_bool)>>] }

ArgValues ==
    { PyInt(1), PyInt(2), PyBool(TRUE),
      PyDict(<< <<"p", PyInt(1)>>, <<"q", PyBool(TRUE)>> >>),
      PyDict(<< <<"q", PyBool(TRUE)>>, <<"p", PyInt(2)>> >>),
      PyDict(<< <<"p", PyInt(1)>> >>),
      PyTuple(<<PyInt(1), PyBool(TRUE)>>),
      PyList(<<PyInt(1), PyBool(TRUE)>>),
      PyDict(<< <<"n", PyDict(<< <<"p", PyInt(1)>>, <<"q", PyBool(TRUE)>> >>)>>,
                <<"x", PyInt(2)>> >>),
      PyTuple(<<PyTuple(<<PyInt(1), PyBool(TRUE)>>), PyInt(2)>>) }

\* the value a keyword carries
KwValue(key) == CASE key = "x" -> PyInt(1) [] key = "y" -> PyBool(TRUE)
                  [] key = "z" -> PyInt(2) [] OTHER -> PyInt(1)

KwKeys == {"x", "y", "z", "w"}

\* keyword dicts: keys pairwise distinct, in every insertion order
Kwargs ==
    {[i \in 1..Len(ks) |-> <<ks[i], KwValue(ks[i])>>] :
         ks \in {s \in SeqsUpTo(KwKeys, MaxKwargs) :
                     \A i, j \in 1..Len(s) : i # j => s[i] # s[j]}}

ResolveInputs ==
    [kind : {"resolve"}, contract_abi : ContractAbis, name : {"a"},
     args : {<<>>, <<PyInt(1)>>, <<PyBytes(32, TRUE)>>, <<PyInt(1), PyInt(1)>>,
             <<PyTuple(<<PyInt(1), PyBool(TRUE)>>)>>,
             <<PyList(<<PyInt(1), PyBool(TRUE)>>)>>},
     kwargs : {kw \in Kwargs : kw = <<>> \/ (Len(kw) = 1 /\ kw[1][1] \in {"x", "w"})}]

\* a call passes at most one argument more than MaxArgs in all
FnInputs ==
    {i \in [kind : {"fn"}, function_abi : FnPool,
            args : SeqsUpTo(ArgValues, MaxArgs), kwargs : Kwargs] :
         Len(i.args) + Len(i.kwargs) <= MaxArgs + 1}

(***************************************************************************)
(* The state machine: one call of one function on the chosen inputs.       *)
(***************************************************************************)
Init ==
    /\ inp \in EncInputs \cup ResolveInputs \cup FnInputs \cup DescInputs
                 \cup TreeInputs \cup SigInputs
    /\ pc = "ready"
    /\ op = "none"
    /\ res = Ret(<<>>)

\* a boolean outcome as a call's outcome
OfBool(r) == IF IsBool(r) THEN Ret(r) ELSE Raise(r)

IsEncodable ==
    /\ pc = "ready"
    /\ inp.kind = "enc"
    /\ pc' = "done"
    /\ op' = "is_encodable"
    /\ res' = OfBool(is_encodable(inp.type, inp.value))
    /\ UNCHANGED inp

FilterByName ==
    /\ pc = "ready"
    /\ inp.kind = "resolve"
    /\ pc' = "done"
    /\ op' = "filter_by_name"
    /\ res' = filter_by_name(inp.name, inp.contract_abi)
    /\ UNCHANGED inp

FilterByArgumentCount ==
    /\ pc = "ready"
    /\ inp.kind = "resolve"
    /\ pc' = "done"
    /\ op' = "filter_by_argument_count"
    /\ res' = filter_by_argument_count(Len(inp.args) + Len(inp.kwargs),
                                        inp.contract_abi)
    /\ UNCHANGED inp

FilterByArgumentName ==
    /\ pc = "ready"
    /\ inp.kind = "resolve"
    /\ pc' = "done"
    /\ op' = "filter_by_argument_name"
    /\ res' = filter_by_argument_name(
                   [i \in 1..Len(inp.kwargs) |-> inp.kwargs[i][1]], inp.contract_abi)
    /\ UNCHANGED inp

FilterByEncodability ==
    /\ pc = "ready"
    /\ inp.kind = "resolve"
    /\ pc' = "done"
    /\ op' = "filter_by_encodability"
    /\ res' = filter_by_encodability(inp.args, inp.kwargs, inp.contract_abi)
    /\ UNCHANGED inp

FindMatchingFnAbi ==
    /\ pc = "ready"
    /\ inp.kind = "resolve"
    /\ pc' = "done"
    /\ op' = "find_matching_fn_abi"
    /\ res' = find_matching_fn_abi(inp.contract_abi, inp.name, inp.args,
                                    inp.kwargs)
    /\ UNCHANGED inp

MergeArgsAndKwargs ==
    /\ pc = "ready"
    /\ inp.kind = "fn"
    /\ pc' = "done"
    /\ op' = "merge_args_and_kwargs"
    /\ res' = merge_args_and_kwargs(inp.function_abi, inp.args, inp.kwargs)
    /\ UNCHANGED inp

GetAbiInputs ==
    /\ pc = "ready"
    /\ inp.kind = "fn"
    /\ pc' = "done"
    /\ op' = "get_abi_inputs"
    /\ res' = get_abi_inputs(inp.function_abi, inp.args)
    /\ UNCHANGED inp

CheckIfArgumentsCanBeEncoded ==
    /\ pc = "ready"
    /\ inp.kind = "fn"
    /\ pc' = "done"
    /\ op' = "check_if_arguments_can_be_encoded"
    /\ res' = OfBool(check_if_arguments_can_be_encoded(inp.function_abi, inp.args,
                                                     inp.kwargs))
    /\ UNCHANGED inp

CollapseIfTuple ==
    /\ pc = "ready"
    /\ inp.kind = "desc"
    /\ pc' = "done"
    /\ op' = "collapse_if_tuple"
    /\ res' = Ret(collapse_if_tuple(inp.abi_type))
    /\ UNCHANGED inp

AbiDataTree ==
    /\ pc = "ready"
    /\ inp.kind = "tree"
    /\ inp.normalizers = <<>>
    /\ pc' = "done"
    /\ op' = "abi_data_tree"
    /\ res' = abi_data_tree(inp.types, inp.data)
    /\ UNCHANGED inp

\* data_tree_map of the first normalizer over the tree of the types and data
DataTreeMap ==
    /\ pc = "ready"
    /\ inp.kind = "tree"
    /\ Len(inp.normalizers) = 1
    /\ abi_data_tree(inp.types, inp.data).exc = "none"
    /\ pc' = "done"
    /\ op' = "data_tree_map"
    /\ res' = data_tree_map(inp.normalizers[1],
                            abi_data_tree(inp.types, inp.data).val)
    /\ UNCHANGED inp

MapAbiData ==
    /\ pc = "ready"
    /\ inp.kind = "tree"
    /\ pc' = "done"
    /\ op' = "map_abi_data"
    /\ res' = map_abi_data(inp.normalizers, inp.types, inp.data)
    /\ UNCHANGED inp

AbiToSignature ==
    /\ pc = "ready"
    /\ inp.kind = "sig"
    /\ pc' = "done"
    /\ op' = "abi_to_signature"
    /\ res' = abi_to_signature(inp.abi)
    /\ UNCHANGED inp

Next ==
    \/ IsEncodable
    \/ FilterByName
    \/ FilterByArgumentCount
    \/ FilterByArgumentName
    \/ FilterByEncodability
    \/ FindMatchingFnAbi
    \/ MergeArgsAndKwargs
    \/ GetAbiInputs
    \/ CheckIfArgumentsCanBeEncoded
    \/ CollapseIfTuple
    \/ AbiDataTree
    \/ DataTreeMap
    \/ MapAbiData
    \/ AbiToSignature

Spec == Init /\ [][Next]_vars

(***************************************************************************)
(* Properties.                                                             *)
(***************************************************************************)
InputNames(d) == {d.inputs[i].name : i \in 1..Len(d.inputs)}

Returned(name) == pc = "done" /\ op = name /\ res.exc = "none"

\* C1: a descriptor find_matching_fn_abi returns is an entry of the ABI, is
\* neither fallback nor constructor, has the requested name, takes
\* len(args)+len(kwargs) inputs, names every keyword among its inputs, and
\* each of its input types accepts the merged argument at its position.
C1_ResolvedOverloadAcceptsArguments ==
    Returned("find_matching_fn_abi") =>
        LET d == res.val
            merged == merge_args_and_kwargs(d, inp.args, inp.kwargs)
        IN  /\ \E i \in 1..Len(inp.contract_abi) : inp.contract_abi[i] = d
            /\ d.type \notin {"fallback", "constructor"}
            /\ d.name = inp.name
            /\ Len(d.inputs) = Len(inp.args) + Len(inp.kwargs)
            /\ DictKeys(inp.kwargs) \subseteq InputNames(d)
            /\ merged.exc = "none"
            /\ \A i \in 1..Len(d.inputs) :
                   is_encodable(collapse_if_tuple(d.inputs[i]), merged.val[i]) = "True"

RECURSIVE IsSubsequence(_, _)
IsSubsequence(sub, full) ==
    IF sub = <<>> THEN TRUE
    ELSE IF full = <<>> THEN FALSE
    ELSE IF Head(sub) = Head(full) THEN IsSubsequence(Tail(sub), Tail(full))
    ELSE IsSubsequence(sub, Tail(full))

Filters == {"filter_by_name", "filter_by_argument_count",
            "filter_by_argument_name", "filter_by_encodability"}

\* the entry, taken alone, is kept by every filter of the resolution
Survives(d) ==
    /\ filter_by_name(inp.name, <<d>>) = Ret(<<d>>)
    /\ filter_by_argument_count(Len(inp.args) + Len(inp.kwargs), <<d>>) = Ret(<<d>>)
    /\ filter_by_argument_name([i \in 1..Len(inp.kwargs) |-> inp.kwargs[i][1]], <<d>>)
           = Ret(<<d>>)
    /\ filter_by_encodability(inp.args, inp.kwargs, <<d>>) = Ret(<<d>>)

\* C2: what a resolution filter returns is a subsequence of the ABI it was
\* given (same entries, same relative order), and the descriptor the
\* resolution returns is the first entry of the ABI that every filter keeps.
C2_FiltersAreStable ==
    /\ (pc = "done" /\ op \in Filters /\ res.exc = "none")
           => IsSubsequence(res.val, inp.contract_abi)
    /\ Returned("find_matching_fn_abi") =>
           \E i \in 1..Len(inp.contract_abi) :
               /\ res.val = inp.contract_abi[i]
               /\ Survives(inp.contract_abi[i])
               /\ \A j \in 1..(i - 1) : ~Survives(inp.contract_abi[j])

\* C2 witness: a resolution returned although two different entries of the
\* ABI survive every filter.
C2_Witness ==
    /\ Returned("find_matching_fn_abi")
    /\ \E i, j \in 1..Len(inp.contract_abi) :
           /\ i < j
           /\ inp.contract_abi[i] # inp.contract_abi[j]
           /\ Survives(inp.contract_abi[i])
           /\ Survives(inp.contract_abi[j])

\* a tuple type string: parenthesized, well formed, with components and
\* without array suffix
IsTupleTypeString(t) ==
    /\ isinstance_str(t)
    /\ Len(t) > 2
    /\ t[1] = "("
    /\ t[Len(t)] = ")"
    /\ parses(t)

\* C3: for a tuple type string is_encodable is True exactly when the value
\* is a list or tuple with one item per top-level component of the type,
\* each item encodable for the component at its position.
C3_TupleEncodableByTopLevelComponents ==
    (pc = "done" /\ op = "is_encodable" /\ IsTupleTypeString(inp.type)) =>
        LET components == get_tuple_component_types(inp.type)
        IN  (res = Ret("True")) <=>
                /\ inp.value.k \in {"list", "tuple"}
                /\ Len(inp.value.items) = Len(components)
                /\ \A i \in 1..Len(components) :
                       is_encodable(components[i], inp.value.items[i]) = "True"

\* an array type string the type grammar accepts
IsArrayTypeString(t) ==
    /\ isinstance_str(t)
    /\ is_array_type(t)
    /\ process_type(t).exc = "none"

\* C4: for an array type string is_encodable is True exactly when the value
\* is list-like, has the length of the last-written dimension when that
\* dimension is fixed (0 included), and each element is encodable for the
\* type without its last suffix.
C4_ArrayEncodableByOutermostDimension ==
    (pc = "done" /\ op = "is_encodable" /\ IsArrayTypeString(inp.type)) =>
        ((res = Ret("True")) <=>
             /\ is_list_like(inp.value)
             /\ length_of_array_type(inp.type) # <<>>
                    => Len(inp.value.items) = length_of_array_type(inp.type)[1]
             /\ \A i \in 1..Len(inp.value.items) :
                    is_encodable(sub_type_of_array_type(inp.type),
                                 inp.value.items[i]) = "True")

\* C4 witness: a two-dimensional fixed array type accepted a value whose
\* outer and inner lengths differ.
C4_Witness ==
    /\ pc = "done" /\ op = "is_encodable" /\ res = Ret("True")
    /\ IsArrayTypeString(inp.type)
    /\ is_array_type(sub_type_of_array_type(inp.type))
    /\ length_of_array_type(inp.type) # <<>>
    /\ length_of_array_type(sub_type_of_array_type(inp.type)) # <<>>
    /\ length_of_array_type(inp.type)
           # length_of_array_type(sub_type_of_array_type(inp.type))
    /\ Len(inp.value.items) > 0

\* C5: given a string as its type, is_encodable returns a boolean and does
\* not raise.
C5_StringTypeNeverRaises ==
    (pc = "done" /\ op = "is_encodable" /\ isinstance_str(inp.type)) =>
        (res.exc = "none" /\ res.val \in {"True", "False"})

DistinctInputNames(d) ==
    \A i, j \in 1..Len(d.inputs) : i # j => d.inputs[i].name # d.inputs[j].name

\* C6: when merge_args_and_kwargs returns for non-empty kwargs and a
\* descriptor of pairwise distinct input names, the result has one value per
\* input, in input order: args[i] for the leading inputs, then the value of
\* the keyword named like the input.
C6_MergedInInputOrder ==
    (Returned("merge_args_and_kwargs") /\ inp.kwargs # <<>>
         /\ DistinctInputNames(inp.function_abi)) =>
        /\ Len(res.val) = Len(inp.function_abi.inputs)
        /\ \A i \in 1..Len(res.val) :
               res.val[i] = IF i <= Len(inp.args) THEN inp.args[i]
                            ELSE DictGet(inp.kwargs, inp.function_abi.inputs[i].name)

\* C6 witness: a merge returned for one positional argument and two keywords
\* given in the reverse of the input order.
C6_Witness ==
    /\ Returned("merge_args_and_kwargs")
    /\ Len(inp.args) = 1
    /\ Len(inp.kwargs) = 2
    /\ inp.kwargs[1][1] = inp.function_abi.inputs[3].name
    /\ inp.kwargs[2][1] = inp.function_abi.inputs[2].name

\* C7: merge_args_and_kwargs raises TypeError exactly when the argument
\* count differs from the number of inputs, or a keyword names an input a
\* positional argument fills, or a keyword names no input; otherwise it
\* returns, and with empty kwargs it returns args.
C7_MergeFailsWithTypeErrorOnly ==
    (pc = "done" /\ op = "merge_args_and_kwargs") =>
        LET d == inp.function_abi
            inputs == InputsOrEmpty(d)
            countDiffers == Len(inp.args) + Len(inp.kwargs) # Len(inputs)
            filled == {inputs[i].name : i \in 1..Min(Len(inputs), Len(inp.args))}
            multiple == DictKeys(inp.kwargs) \cap filled # {}
            unexpected ==
                \E key \in DictKeys(inp.kwargs) :
                    \A i \in 1..Len(inputs) : inputs[i].name # key
        IN  /\ (countDiffers \/ multiple \/ unexpected) => res.exc = "TypeError"
            /\ ~(countDiffers \/ multiple \/ unexpected) => res.exc = "none"
            /\ (res.exc = "none" /\ inp.kwargs = <<>>) => res.val = inp.args

\* C8: for as many arguments as inputs, get_abi_inputs returns one type and
\* one value per input, and a non-tuple input contributes its declared type
\* and its unchanged value at its position.
C8_OneTypePerInput ==
    (Returned("get_abi_inputs")
         /\ Len(inp.args) = Len(inp.function_abi.inputs)) =>
        LET inputs == inp.function_abi.inputs
        IN  /\ Len(res.val.types) = Len(inputs)
            /\ Len(res.val.values) = Len(inputs)
            /\ \A i \in 1..Len(inputs) :
                   inputs[i].type # <<"tuple">> =>
                       /\ res.val.types[i] = inputs[i].type
                       /\ res.val.values[i] = inp.args[i]

\* the argument of a tuple-typed input is a mapping from exactly the
\* component names
IsMappingFor(abi_input, arg_value) ==
    /\ abi_input.type = <<"tuple">>
    /\ arg_value.k = "dict"
    /\ Len(arg_value.entries) = Len(abi_input.components)
    /\ DictKeys(arg_value.entries)
           = {abi_input.components[i].name : i \in 1..Len(abi_input.components)}

\* the plain tuple (v1, ..., vn) of a mapping, in component order
PlainTuple(abi_input, arg_value) ==
    PyTuple([i \in 1..Len(abi_input.components) |->
                 DictGet(arg_value.entries, abi_input.components[i].name)])

\* C9: get_abi_inputs returns for a tuple-typed input given as a mapping
\* what it returns for the plain tuple of the mapping's values in component
\* order, and the flattened value is that tuple.
C9_MappingLikePlainTuple ==
    (pc = "done" /\ op = "get_abi_inputs" /\ Has(inp.function_abi, "inputs")
         /\ Len(inp.args) = Len(inp.function_abi.inputs)) =>
        LET inputs == inp.function_abi.inputs
            plain == [i \in 1..Len(inp.args) |->
                          IF IsMappingFor(inputs[i], inp.args[i])
                          THEN PlainTuple(inputs[i], inp.args[i])
                          ELSE inp.args[i]]
        IN  /\ res = get_abi_inputs(inp.function_abi, plain)
            /\ res.exc = "none" =>
                   \A i \in 1..Len(inputs) :
                       IsMappingFor(inputs[i], inp.args[i]) =>
                           res.val.values[i] = plain[i]

\* C9 witness: get_abi_inputs returned for a mapping whose keys were
\* inserted in another order than the components.
C9_Witness ==
    /\ Returned("get_abi_inputs")
    /\ Len(inp.args) = Len(inp.function_abi.inputs)
    /\ \E i \in 1..Len(inp.args) :
           /\ IsMappingFor(inp.function_abi.inputs[i], inp.args[i])
           /\ inp.args[i].entries[1][1] # inp.function_abi.inputs[i].components[1].name

\* C10: for a fallback descriptor without inputs and no arguments,
\* get_abi_inputs returns no types and no values.
C10_FallbackWithoutInputs ==
    (pc = "done" /\ op = "get_abi_inputs"
         /\ inp.function_abi.type = "fallback"
         /\ ~Has(inp.function_abi, "inputs")
         /\ inp.args = <<>>) =>
        res = Ret([types |-> <<>>, values |-> <<>>])

\* the collapsed types of the components of a tuple descriptor
CollapsedComponents(d) ==
    [i \in 1..Len(d.components) |-> collapse_if_tuple(d.components[i])]

C12_EmptyPipelineIsIdentity ==
    (pc = "done" /\ op = "map_abi_data" /\ inp.normalizers = <<>>
         /\ \A i \in 1..Len(inp.types) : inp.types[i] # <<"int">>) =>
        (res.exc = "none" /\ res.val = inp.data)

\* what a call returned or raised, without the record of the calls it made
Outcome(r) == IF r.exc = "none" THEN Ret(r.val) ELSE Raise(r.exc)

\* map_abi_data([g], types, map_abi_data([f], types, data))
Composed(f, g, types, data) ==
    LET first == map_abi_data(<<f>>, types, data)
    IN  IF first.exc # "none" THEN Outcome(first)
        ELSE Outcome(map_abi_data(<<g>>, types, first.val))

\* in its pass over the tree of the types and data, the normalizer returned
\* at every node the type it was given
KeepsTypes(f, types, data) ==
    LET calls == map_abi_data(<<f>>, types, data).calls
    IN  \A i \in 1..Len(calls) :
            Normalize(f, calls[i].abi_type, calls[i].data).abi_type
                = calls[i].abi_type

\* C13 as claimed: for all normalizers f and g, which may change the type,
\* map_abi_data([f, g], types, data) equals
\* map_abi_data([g], types, map_abi_data([f], types, data)).
C13_PipelineComposes ==
    (pc = "done" /\ op = "map_abi_data" /\ Len(inp.normalizers) = 2) =>
        Outcome(res) = Composed(inp.normalizers[1], inp.normalizers[2],
                                inp.types, inp.data)

\* C13 amended: when f returns at every node the type it was given,
\* map_abi_data([f, g], types, data) equals
\* map_abi_data([g], types, map_abi_data([f], types, data)), both raising
\* the same exception when one raises; g may change types.
C13_TypeKeepingPipelineComposes ==
    (pc = "done" /\ op = "map_abi_data" /\ Len(inp.normalizers) = 2
         /\ KeepsTypes(inp.normalizers[1], inp.types, inp.data)) =>
        Outcome(res) = Composed(inp.normalizers[1], inp.normalizers[2],
                                inp.types, inp.data)

\* C13 witness: a pipeline of two different normalizers returned, the first
\* kept the types and changed a value, and the second changed another.
C13_Witness ==
    /\ Returned("map_abi_data")
    /\ Len(inp.normalizers) = 2
    /\ inp.normalizers[1] # inp.normalizers[2]
    /\ KeepsTypes(inp.normalizers[1], inp.types, inp.data)
    /\ map_abi_data(<<inp.normalizers[1]>>, inp.types, inp.data).val # inp.data
    /\ map_abi_data(<<inp.normalizers[1]>>, inp.types, inp.data).val # res.val

\* a typed node the normalizers are kept from: its type is None or the type
\* string of a tuple
IsOpaque(node) ==
    node.k = "typed" /\ (node.abi_type = PyNone \/ node.abi_type[1] = "(")

\* the tree abi_data_tree builds of the types and data
TreeOf(types, data) == abi_data_tree(types, data).val

\* new has the shape of old: list for list, item for item, typed node for
\* typed node; and the nodes kept from the normalizers are as they were
RECURSIVE Framed(_, _)
Framed(old, new) ==
    IF IsOpaque(old) THEN new = old
    ELSE IF old.k = "typed" THEN new.k = "typed" /\ Framed(old.data, new.data)
    ELSE IF old.k = "list"
    THEN /\ new.k = "list"
         /\ Len(new.items) = Len(old.items)
         /\ \A i \in 1..Len(old.items) : Framed(old.items[i], new.items[i])
    ELSE TRUE

\* the typed nodes of a tree the normalizers are not kept from, children
\* before their parent
RECURSIVE PlainNodes(_)
PlainNodes(tree) ==
    IF IsOpaque(tree) THEN <<>>
    ELSE IF tree.k = "typed" THEN PlainNodes(tree.data) \o <<tree>>
    ELSE IF tree.k = "list"
    THEN Concat([i \in 1..Len(tree.items) |-> PlainNodes(tree.items[i])])
    ELSE <<>>

\* C14: data_tree_map(normalizer, tree) returns a tree of the shape of its
\* input in which every None-typed node and every tuple leaf is the input's
\* node; the normalizer is called on the other typed nodes only, so neither
\* on those nodes nor on a value inside a tuple leaf.
C14_OpaqueNodesUntouched ==
    (pc = "done" /\ op = "data_tree_map") =>
        LET tree == TreeOf(inp.types, inp.data)
        IN  /\ res.exc = "none"
            /\ Framed(tree, res.val)
            /\ \A i \in 1..Len(res.calls) :
                   /\ res.calls[i].abi_type # PyNone
                   /\ res.calls[i].abi_type[1] # "("
            /\ Len(res.calls) = Len(PlainNodes(tree))

\* C14 witness: a pass changed one node of a tree whose other node is
\* None-typed or a tuple leaf.
C14_Witness ==
    /\ Returned("data_tree_map")
    /\ \E i, j \in 1..Len(res.val.items) :
           /\ IsOpaque(TreeOf(inp.types, inp.data).items[i])
           /\ res.val.items[j] # TreeOf(inp.types, inp.data).items[j]

\* the type abi_to_signature is claimed to render for an input
RenderedType(abi_input) ==
    IF ~is_recognized_type(abi_input.type) /\ is_probably_enum(abi_input.type)
    THEN <<"uint", "8">>
    ELSE collapse_if_tuple(abi_input)

\* C15: for a descriptor with a name, abi_to_signature returns the name,
\* then in parentheses the comma-joined input types, each the collapsed
\* form of its input (a tuple as its parenthesized components, never
\* 'tuple') and uint8 for an unrecognized Lib.Enum; name() without inputs.
C15_SignatureOfCollapsedTypes ==
    (pc = "done" /\ op = "abi_to_signature" /\ Has(inp.abi, "name")) =>
        LET inputs == InputsOrEmpty(inp.abi)
        IN  res = Ret(<<inp.abi.name, "(">>
                          \o join_comma([i \in 1..Len(inputs) |->
                                             RenderedType(inputs[i])])
                          \o <<")">>)

\* every candidate has the keys the error messages of merge_args_and_kwargs
\* read (C7 is about the candidates that lack them)
CandidatesComplete ==
    \A i \in 1..Len(inp.contract_abi) :
        Has(inp.contract_abi[i], "inputs") /\ Has(inp.contract_abi[i], "name")

\* C16: filter_by_encodability never raises because of the shape of an
\* argument: a candidate whose arguments do not fit (wrong count, unknown or
\* duplicate keyword, a tuple-typed input given a list or a scalar, a value
\* not encodable) is dropped and the other candidates are still evaluated.
C16_EncodabilityFilterNeverRaises ==
    (pc = "done" /\ op = "filter_by_encodability" /\ CandidatesComplete) =>
        /\ res.exc = "none"
        /\ IsSubsequence(res.val, inp.contract_abi)

\* the node abi_data_tree is claimed to build for a type and its data
RECURSIVE WellTypedNode(_, _, _)
WellTypedNode(node, abi_type, data) ==
    /\ node.k = "typed"
    /\ node.abi_type = abi_type
    /\ IF is_array_type(abi_type)
       THEN /\ node.data.k = "list"
            /\ Len(node.data.items) = PyLen(data)
            /\ \A i \in 1..PyLen(data) :
                   WellTypedNode(node.data.items[i],
                                 sub_type_of_array_type(abi_type), data.items[i])
       ELSE node.data = data

NonTupleType(abi_type) ==
    abi_type # PyNone /\ abi_type # <<>> /\ abi_type[1] # "("

\* C17: for non-tuple type strings, the aliases 'int' and 'uint' included,
\* and matching data, every node of abi_data_tree is typed with the
\* canonical collapsed type of its depth; an array node of K elements has K
\* children typed with the array type less its outermost suffix; any other
\* node is a leaf holding the original value.
C17_TreeNodesCanonicallyTyped ==
    (/\ pc = "done" /\ op = "abi_data_tree"
     /\ \A i \in 1..Len(inp.types) : NonTupleType(inp.types[i])) =>
        /\ res.exc = "none"
        /\ Len(res.val.items) = Len(inp.types)
        /\ \A i \in 1..Len(inp.types) :
               WellTypedNode(res.val.items[i],
                             normalize_type_string(inp.types[i]),
                             inp.data.items[i])

\* the value of an input flattened at every depth: the mapping or tuple of
\* a tuple-typed input or component as the plain tuple of its flattened
\* component values
RECURSIVE Flattened(_, _)
Flattened(abi_input, arg_value) ==
    IF abi_input.type # T_tuple \/ arg_value.k \notin {"dict", "tuple"}
    THEN arg_value
    ELSE PyTuple([i \in 1..Len(abi_input.components) |->
                      Flattened(abi_input.components[i],
                                component_value(arg_value,
                                                abi_input.components[i], i))])

\* the value has the shape of the input at every depth: for a tuple type
\* a mapping from exactly the component names, or a tuple of one value per
\* component
RECURSIVE HasShapeOf(_, _)
HasShapeOf(arg_value, abi_input) ==
    abi_input.type = T_tuple =>
        /\ arg_value.k \in {"dict", "tuple"}
        /\ PyLen(arg_value) = Len(abi_input.components)
        /\ arg_value.k = "dict" => IsMappingFor(abi_input, arg_value)
        /\ \A i \in 1..Len(abi_input.components) :
               HasShapeOf(component_value(arg_value, abi_input.components[i], i),
                          abi_input.components[i])

\* how many of the first i inputs are tuple-typed
TupleRank(inputs, i) == Cardinality({j \in 1..i : inputs[j].type = T_tuple})

\* C18: for every tuple-typed input, also one with tuple-typed components,
\* the type get_abi_inputs returns for it is collapse_if_tuple(input), and
\* its value is flattened to plain tuples at every depth.
C18_NestedTuplesCollapsedAndFlattened ==
    (Returned("get_abi_inputs")
         /\ Len(inp.args) = Len(inp.function_abi.inputs)) =>
        LET inputs == inp.function_abi.inputs
        IN  \A i \in 1..Len(inputs) :
                (inputs[i].type = T_tuple /\ HasShapeOf(inp.args[i], inputs[i])) =>
                    /\ res.val.types[TupleRank(inputs, i)]
                           = collapse_if_tuple(inputs[i])
                    /\ res.val.values[i] = Flattened(inputs[i], inp.args[i])

\* C19: whenever merge_args_and_kwargs returns, also for a descriptor in
\* which several inputs share a name (several unnamed inputs), the result
\* has one element per input and every positional argument at its own
\* position.
C19_MergedHasOneValuePerInput ==
    Returned("merge_args_and_kwargs") =>
        /\ Len(res.val) = Len(InputsOrEmpty(inp.function_abi))
        /\ \A i \in 1..Len(inp.args) : res.val[i] = inp.args[i]

\* the calls of one pass over tree that returned out: one per typed node of
\* a string type that is no tuple, children before their parent; a leaf is
\* passed with its data, an array with its children as the pass left them
\* (no normalizer of the model changes the data of an array node)
PassInOrder(calls, tree, out) ==
    LET inNodes == PlainNodes(tree)
        outNodes == PlainNodes(out)
    IN  /\ Len(calls) = Len(inNodes)
        /\ \A i \in 1..Len(calls) :
               /\ calls[i].abi_type = inNodes[i].abi_type
               /\ calls[i].data = IF is_array_type(inNodes[i].abi_type)
                                  THEN outNodes[i].data
                                  ELSE inNodes[i].data
               /\ is_array_type(inNodes[i].abi_type) =>
                      \A j \in 1..Len(calls[i].data.items) :
                          calls[i].data.items[j].k = "typed"

====
